---- MODULE Spec2Model ----
(***************************************************************************)
(* The in-memory chunk ring of nsq_metrics_tank (aggmetric.go): AggMetric  *)
(* with Add, GetUnsafe, GetSafe and get, the tsz chunk codec seen through  *)
(* its New/Push/Finish/Iter interface, and the Aggregator signal log.      *)
(*                                                                         *)
(* Spec  : one caller, every call is one step (the calls are serialized by *)
(*         the mutex of the AggMetric).                                    *)
(* SpecC : several goroutines, one step per statement group, the mutex     *)
(*         explicit.                                                       *)
(* SpecA : one caller, Add only, timestamps over the whole uint32 range.   *)
(* SpecG : generateSchemas of cmd/mt-parrot, one step per loop iteration.  *)
(***************************************************************************)
EXTENDS Integers, Sequences, FiniteSets, TLC

VARIABLES
    a,      \* the AggMetric: lastTs, firstStart, lastStart, chunks
    mu,     \* a.Mutex: Free, or the caller that holds it
    nextId, \* identity of the next tsz.Series object to be allocated
    sigs,   \* the Signal calls received by the aggregators, in call order
    hist,   \* the accepted Add calls, in order, with what each did to the ring
    last,   \* Spec: the last finished call and what it returned
    pc,     \* SpecC: where each goroutine is
    loc,    \* SpecC: the arguments and locals of each goroutine's call
    gen     \* SpecG: the run of generateSchemas of mt-parrot

vars == <<a, mu, nextId, sigs, hist, last, pc, loc, gen>>

----------------------------------------------------------------------------
(* Program constants and the bounds of the model.                          *)

chunkSpan == 120
numChunks == 5

\* accepted Add calls in a run of Spec, of SpecC
MaxAdds == 3
MaxAddsC == 2

\* timestamps and values offered to Add
TsAdd == {0, 100, 130, 700, 850, 860, 1310}
Vals == {1, 2}
ValsA == {1}
\* ranges <<from, to>> offered to the reads
Ranges == {<<50, 50>>, <<80, 10>>, <<0, 250>>, <<130, 140>>, <<700, 720>>,
           <<700, 860>>, <<0, 2000>>}
\* the subscribed aggregators, in subscription order
aggregators == <<"agg1", "agg2">>

----------------------------------------------------------------------------
(* uint32.  TLC's integers are 32 bit signed, so a uint32 is held as the   *)
(* int32 with the same bit pattern: v below 2^31 as v, v from 2^31 up as   *)
(* v - 2^32.  Every value below is within 2^20 of 0 or of 2^32, so sums    *)
(* and differences of two encodings are exact; TLC stops with an overflow  *)
(* error otherwise.                                                        *)

MaxInt32 == 2147483647

\* 2^32 = Q32(d) * d + R32(d), from 2^32 = 2 * (MaxInt32 + 1)
Q32(d) == 2 * (MaxInt32 \div d) + ((2 * (MaxInt32 % d) + 2) \div d)
R32(d) == (2 * (MaxInt32 % d) + 2) % d

\* x - y, x * y on uint32; x - y is taken in two halves where the
\* difference of the encodings leaves the 32-bit range
Sub32(x, y) ==
    IF (x >= 0) = (y >= 0) THEN x - y
    ELSE LET t == IF x >= 0 THEN (x - MaxInt32 - 1) - y
                  ELSE (x + MaxInt32 + 1) - y
         IN  IF t >= 0 THEN t - MaxInt32 - 1 ELSE t + MaxInt32 + 1
Mul32(x, y) == x * y
\* x < y, x <= y, x > y, x >= y on uint32
Lt32(x, y) == IF (x >= 0) = (y >= 0) THEN x < y ELSE y < 0
Le32(x, y) == x = y \/ Lt32(x, y)
Gt32(x, y) == Lt32(y, x)
Ge32(x, y) == Le32(y, x)
\* x / d, x % d on uint32, for a divisor 2 <= d < 2^31
Div32(x, d) == IF x >= 0 THEN x \div d ELSE Q32(d) + ((x + R32(d)) \div d)
Mod32(x, d) == IF x >= 0 THEN x % d ELSE (x + R32(d)) % d

----------------------------------------------------------------------------
(* The chunk codec (github.com/dgryski/go-tsz), as the store uses it.      *)

\* a nil *tsz.Series
Nil == [id |-> 0, t0 |-> 0, pts |-> <<>>, finished |-> FALSE, late |-> 0]

\* tsz.New(t0): a fresh open series, object number id
New(id, t0) == [id |-> id, t0 |-> t0, pts |-> <<>>, finished |-> FALSE, late |-> 0]

\* series.Push(ts, val); late counts the pushes made after Finish
Push(s, ts, val) ==
    [s EXCEPT !.pts = Append(@, <<ts, val>>),
              !.late = IF s.finished THEN @ + 1 ELSE @]

\* series.Finish()
Finish(s) == [s EXCEPT !.finished = TRUE]

\* series.Iter(): an iterator over a copy of what the series holds now
Iter(s) == [id |-> s.id, t0 |-> s.t0, pts |-> s.pts]

----------------------------------------------------------------------------
(* AggMetric                                                               *)

Slots == 0 .. (numChunks - 1)

\* NewAggMetric(key)
NewAggMetric ==
    [lastTs |-> 0, firstStart |-> 0, lastStart |-> 0,
     chunks |-> [i \in Slots |-> Nil]]

\* ts - (ts % a.chunkSpan)
Align(ts) == Sub32(ts, Mod32(ts, chunkSpan))

\* ((start - a.firstStart) / a.chunkSpan) % a.numChunks
Index(m, start) == Mod32(Div32(Sub32(start, m.firstStart), chunkSpan), numChunks)

\* Add, line 145: the sample is rejected
AddRejects(m, ts) == Le32(ts, m.lastTs)

\* the first point ever setting firstStart and leaving lastStart alone
MutAddFirstSet(m, start) == [m EXCEPT !.firstStart = start]

\* Add, lines 153-154: the first point ever
AddFirstSet(m, start) == [m EXCEPT !.firstStart = start, !.lastStart = start]

\* Add, lines 155-157
AddFirstChunk(m, id, start, ts, val) ==
    [m EXCEPT !.chunks[0] = Push(New(id, start), ts, val)]

\* Add, lines 164-165: the point goes into the chunk of the last point
AddSame(m, start, ts, val) ==
    [m EXCEPT !.chunks[Index(m, start)] = Push(@, ts, val)]

\* Add, lines 171-172: finish the last chunk
AddSeal(m) == [m EXCEPT !.chunks[Index(m, m.lastStart)] = Finish(@)]

\* Add, lines 175-178: create the new chunk
AddOpen(m, id, start, ts, val) ==
    [m EXCEPT !.chunks[Index(m, start)] = Push(New(id, start), ts, val)]

\* which of its three paths an Add that is not rejected takes
AddPath(m, ts) ==
    IF m.firstStart = 0 THEN "first"
    ELSE IF Align(ts) = m.lastStart THEN "same" ELSE "new"

\* Add, lines 165 and 172: the method call on a nil chunk faults
AddFaults(m, ts) ==
    CASE AddPath(m, ts) = "first" -> FALSE
      [] AddPath(m, ts) = "same" -> m.chunks[Index(m, Align(ts))] = Nil
      [] OTHER -> m.chunks[Index(m, m.lastStart)] = Nil

\* Add, lines 149-181: the AggMetric after a sample that is not rejected
AddStore(m, id, ts, val) ==
    LET start == Align(ts) IN
    CASE AddPath(m, ts) = "first" ->
            AddFirstChunk(AddFirstSet(m, start), id, start, ts, val)
      [] AddPath(m, ts) = "same" -> AddSame(m, start, ts, val)
      [] OTHER -> AddOpen(AddSeal(m), id, start, ts, val)

\* the loop over the aggregators stopping after the first one
MutSignalFirst(log, ts) == Append(log, <<aggregators[1], ts>>)

\* signalAggregators(ts): agg.Signal(a, ts) on each aggregator in list order
signalAggregators(log, ts) ==
    log \o [i \in 1 .. Len(aggregators) |-> <<aggregators[i], ts>>]

\* what an accepted Add did, from the AggMetric m just before its Push: the
\* path taken, the chunk object pushed into, the chunk object Finish was
\* called on, the chunk object created (0: none), the slot written
AddRecord(m, path, id, ts, val) ==
    [ts |-> ts, val |-> val, path |-> path,
     into |-> IF path = "same" THEN m.chunks[Index(m, Align(ts))].id ELSE id,
     sealed |-> IF path = "new" THEN m.chunks[Index(m, m.lastStart)].id ELSE 0,
     opened |-> IF path = "same" THEN 0 ELSE id,
     slot |-> IF path = "first" THEN 0 ELSE Index(m, Align(ts))]

----------------------------------------------------------------------------
(* The reads                                                               *)

\* the chunks of slots lo..hi, in slot order
SlotRun(m, lo, hi) == [k \in 1 .. (hi - lo + 1) |-> m.chunks[lo + k - 1]]

\* get(firstStart, lastStart), lines 95-112: the candidate chunks
getData(m, firstStart, lastStart) ==
    LET first == Index(m, firstStart)
        lastI == Index(m, lastStart)
    IN  IF lastI >= first
        THEN SlotRun(m, first, lastI)
        ELSE SlotRun(m, first, numChunks - 1) \o SlotRun(m, 0, lastI)

\* get, lines 113-119: an iterator for every chunk that is not nil
get(m, firstStart, lastStart) ==
    LET data == SelectSeq(getData(m, firstStart, lastStart), LAMBDA c : c # Nil)
    IN  [k \in 1 .. Len(data) |-> Iter(data[k])]

\* a.lastStart - a.numChunks*a.chunkSpan, lines 60 and 80
Oldest(m) == Sub32(m.lastStart, Mul32(numChunks, chunkSpan))

\* the range test written from > to
MutBadRange(from, to) == Gt32(from, to)

\* lines 54 and 74
BadRange(from, to) == Ge32(from, to)

\* GetUnsafe, lines 58-62: the first requested start, clamped
UnsafeFirst(m, from) ==
    IF Lt32(Align(from), Oldest(m)) THEN Oldest(m) ELSE Align(from)

\* GetUnsafe, lines 59, 63-65: the last requested start, clamped
UnsafeLast(m, to) ==
    IF Gt32(Align(Sub32(to, 1)), m.lastStart)
    THEN m.lastStart ELSE Align(Sub32(to, 1))

\* GetSafe, lines 80-82
TooOld(m, from) == Lt32(Align(from), Oldest(m))

\* GetSafe, lines 83-85
TooNew(m, to) == Gt32(Align(Sub32(to, 1)), m.lastStart)

NoIters == <<>>

\* the record of a finished call: the operation, its two arguments, how it
\* ended, the resolved first and last start handed to get, the iterators
Ret(op, p, q, out, fs, ls, iters) ==
    [op |-> op, p |-> p, q |-> q, out |-> out, fs |-> fs, ls |-> ls,
     iters |-> iters]

\* GetUnsafe(from, to) as a whole
GetUnsafeRet(m, from, to) ==
    IF BadRange(from, to)
    THEN Ret("GetUnsafe", from, to, "error", 0, 0, NoIters)
    ELSE Ret("GetUnsafe", from, to, "ok", UnsafeFirst(m, from), UnsafeLast(m, to),
             get(m, UnsafeFirst(m, from), UnsafeLast(m, to)))

\* GetSafe(from, to) as a whole
GetSafeRet(m, from, to) ==
    IF BadRange(from, to) \/ TooOld(m, from) \/ TooNew(m, to)
    THEN Ret("GetSafe", from, to, "panic", 0, 0, NoIters)
    ELSE Ret("GetSafe", from, to, "ok", Align(from), Align(Sub32(to, 1)),
             get(m, Align(from), Align(Sub32(to, 1))))

----------------------------------------------------------------------------
(* The test-data generator, cmd/mt-parrot/generate.go.  A suffix is the    *)
(* sequence of its letters; a metric name is the format with the partition *)
(* number and the suffix that Sprintf puts into it.                        *)

alphabet ==
    <<"a", "b", "c", "d", "e", "f", "g", "h", "i", "j", "k", "l", "m",
      "n", "o", "p", "q", "r", "s", "t", "u", "v", "w", "x", "y", "z">>

\* the suffix with the single-letter range one index too long
RECURSIVE MutGeneratePartitionSuffix(_)
MutGeneratePartitionSuffix(i) ==
    IF i > 26
    THEN Append(MutGeneratePartitionSuffix((i \div 26) - 1), alphabet[(i % 26) + 1])
    ELSE <<alphabet[(i % 26) + 1]>>

\* generatePartitionSuffix(i), lines 57-62 (alphabet is indexed from 0 there)
RECURSIVE generatePartitionSuffix(_)
generatePartitionSuffix(i) ==
    IF i > 25
    THEN Append(generatePartitionSuffix((i \div 26) - 1), alphabet[(i % 26) + 1])
    ELSE <<alphabet[(i % 26) + 1]>>

\* fmt.Sprintf("parrot.testdata.%d.generated.%s", desiredPartition, suffix)
Sprintf(desiredPartition, suffix) ==
    [text |-> "parrot.testdata.%d.generated.%s", d |-> desiredPartition, s |-> suffix]

\* the partition methods the configuration may name
Methods == {"bySeries", "unknown"}

\* the hash of a metric name: a polynomial over its characters
HashMul == 31
HashMod == 1009
Code(c) == CHOOSE k \in 1 .. Len(alphabet) : alphabet[k] = c
RECURSIVE HashFrom(_, _)
HashFrom(h, s) ==
    IF s = <<>> THEN h
    ELSE HashFrom((h * HashMul + Code(Head(s))) % HashMod, Tail(s))
Hash(name) == HashFrom(name.d + 1, name.s)

\* metric.PartitionID(partitionMethod, partitionCount): the error, or the
\* partition in 0 .. partitionCount-1 the name hashes to
PartitionID(name, partitionMethod, partitionCount) ==
    IF partitionMethod = "bySeries"
    THEN [id |-> Hash(name) % partitionCount, err |-> FALSE]
    ELSE [id |-> 0, err |-> TRUE]

\* no run of generateSchemas yet
NoGen == [pc |-> "idle", numPartitions |-> 0, partitionMethod |-> "bySeries",
          partitionCount |-> 1, i |-> 0, j |-> 0, metrics |-> <<>>,
          tried |-> <<>>]

----------------------------------------------------------------------------
(* Spec: one caller, one step per call.                                    *)

Free == 0
\* the goroutines; Spec's one caller is the first
G == {1, 2}
Caller == 1
Idle == [g \in G |-> "idle"]
NoLoc == [op |-> "none", p |-> 0, q |-> 0, out |-> "none", fs |-> 0, ls |-> 0,
          iters |-> NoIters, nsig |-> 0]
NoLocs == [g \in G |-> NoLoc]

Init ==
    /\ a = NewAggMetric
    /\ mu = Free
    /\ nextId = 1
    /\ sigs = <<>>
    /\ hist = <<>>
    /\ last = Ret("none", 0, 0, "none", 0, 0, NoIters)
    /\ pc = Idle
    /\ loc = NoLocs
    /\ gen = NoGen

\* a.Add(ts, val), lines 141-183.  Lock blocks while the mutex is held.
Add(ts, val) ==
    /\ Len(hist) < MaxAdds
    /\ mu = Free
    /\ IF AddRejects(a, ts)
       THEN /\ last' = Ret("Add", ts, val, "rejected", 0, 0, NoIters)
            /\ UNCHANGED <<a, nextId, sigs, hist>>
       ELSE IF AddFaults(a, ts)
       THEN /\ last' = Ret("Add", ts, val, "panic", 0, 0, NoIters)
            /\ UNCHANGED <<a, nextId, sigs, hist>>
       ELSE /\ a' = AddStore(a, nextId, ts, val)
            /\ nextId' = IF AddPath(a, ts) = "same" THEN nextId ELSE nextId + 1
            /\ sigs' = signalAggregators(sigs, ts)
            /\ hist' = Append(hist, AddRecord(a, AddPath(a, ts), nextId, ts, val))
            /\ last' = Ret("Add", ts, val, "ok", 0, 0, NoIters)
    /\ UNCHANGED <<mu, pc, loc, gen>>

\* a.GetUnsafe(from, to), lines 53-69.  The range test precedes Lock.
GetUnsafe(from, to) ==
    /\ BadRange(from, to) \/ mu = Free
    /\ last' = GetUnsafeRet(a, from, to)
    /\ UNCHANGED <<a, mu, nextId, sigs, hist, pc, loc, gen>>

\* a.GetSafe(from, to), lines 73-88.  The range test precedes Lock; the two
\* later panics happen with the mutex locked and no Unlock deferred yet.
GetSafe(from, to) ==
    /\ BadRange(from, to) \/ mu = Free
    /\ last' = GetSafeRet(a, from, to)
    /\ mu' = IF ~BadRange(from, to) /\ (TooOld(a, from) \/ TooNew(a, to))
             THEN Caller ELSE mu
    /\ UNCHANGED <<a, nextId, sigs, hist, pc, loc, gen>>

Next ==
    \/ \E ts \in TsAdd, val \in Vals : Add(ts, val)
    \/ \E r \in Ranges : GetUnsafe(r[1], r[2])
    \/ \E r \in Ranges : GetSafe(r[1], r[2])

Spec == Init /\ [][Next]_vars

----------------------------------------------------------------------------
(* Properties of the calls, checked under Spec.                            *)

\* the points of the accepted samples, in the order they were accepted
Points(h) == [i \in 1 .. Len(h) |-> <<h[i].ts, h[i].val>>]

\* the points a sequence of iterators yields, one iterator after the other
RECURSIVE Yield(_)
Yield(iters) ==
    IF iters = <<>> THEN <<>> ELSE Head(iters).pts \o Yield(Tail(iters))

\* the accepted samples came with strictly increasing timestamps
InOrder(h) == \A i \in 1 .. Len(h) - 1 : h[i].ts < h[i + 1].ts

\* the chunk objects the ring holds
Held(m) == {m.chunks[i] : i \in {j \in Slots : m.chunks[j] # Nil}}

\* the last call was a read that returned iterators
ReadOk == last.op \in {"GetUnsafe", "GetSafe"} /\ last.out = "ok"

\* C1: once a sample with timestamp ts has been accepted, Add(ts2, v) with
\* ts2 <= ts changes neither the AggMetric (lastTs, lastStart, firstStart,
\* the chunks) nor the signals the aggregators have received.
C1_DuplicateRejected ==
    [][\A ts2 \in TsAdd, v \in Vals :
          (Add(ts2, v) /\ \E i \in 1 .. Len(hist) : ts2 <= hist[i].ts)
              => (a' = a /\ sigs' = sigs)]_vars

\* C2: after Add calls with strictly increasing timestamps whose chunks all
\* fit in the ring, GetSafe(from, to) with from and to - 1 in the first and
\* the last chunk written and from <= the first, to > the last timestamp
\* returns iterators that yield exactly the appended points, in order.
C2_FullSpanRead ==
    (/\ last.op = "GetSafe"
     /\ hist # <<>>
     /\ InOrder(hist)
     /\ Align(hist[Len(hist)].ts) - Align(hist[1].ts) < numChunks * chunkSpan
     /\ last.p <= hist[1].ts /\ Align(last.p) = Align(hist[1].ts)
     /\ hist[Len(hist)].ts < last.q
     /\ Align(last.q - 1) = Align(hist[Len(hist)].ts))
        => (last.out = "ok" /\ Yield(last.iters) = Points(hist))

\* C3: two samples accepted in timestamp order with the same aligned start
\* were pushed into the same chunk object, and an accepted sample whose
\* aligned start differs from that of the sample accepted before it seals
\* the chunk that sample was pushed into and opens one new chunk.
C3_ChunkAlignment ==
    /\ \A i, j \in 1 .. Len(hist) :
          (i < j /\ hist[i].ts < hist[j].ts
                 /\ Align(hist[i].ts) = Align(hist[j].ts))
              => hist[i].into = hist[j].into
    /\ \A j \in 2 .. Len(hist) :
          Align(hist[j].ts) # Align(hist[j - 1].ts)
              => (hist[j].sealed = hist[j - 1].into /\ hist[j].opened # 0)

\* the largest timestamp accepted so far
RECURSIVE MaxTs(_)
MaxTs(h) ==
    IF h = <<>> THEN 0
    ELSE IF Head(h).ts > MaxTs(Tail(h)) THEN Head(h).ts ELSE MaxTs(Tail(h))

RECURSIVE MinTs(_)
MinTs(h) ==
    IF Len(h) = 1 THEN h[1].ts
    ELSE IF Head(h).ts < MinTs(Tail(h)) THEN Head(h).ts ELSE MinTs(Tail(h))

\* C4: GetUnsafe(from, to) with from < to returns without error or fault;
\* once the accepted samples span more than numChunks*chunkSpan seconds and
\* from lies before the retained window, the iterators returned are those
\* of exactly the chunks held in the ring that overlap [from, to), none of
\* which starts before lastStart - numChunks*chunkSpan.
C4_UnsafeNarrowed ==
    (last.op = "GetUnsafe" /\ last.p < last.q) =>
        /\ last.out = "ok"
        /\ (/\ hist # <<>>
            /\ MaxTs(hist) - MinTs(hist) > numChunks * chunkSpan
            /\ Align(last.p) < Align(MaxTs(hist)) - numChunks * chunkSpan)
              => /\ {it.id : it \in {last.iters[k] : k \in 1 .. Len(last.iters)}}
                      = {c.id : c \in {d \in Held(a) :
                                  d.t0 < last.q /\ d.t0 + chunkSpan > last.p}}
                 /\ \A k \in 1 .. Len(last.iters) :
                       last.iters[k].t0 >= a.lastStart - numChunks * chunkSpan

\* the chunk written for aligned start s is no longer in the ring
Evicted(s) ==
    \E i \in 1 .. Len(hist) :
        /\ Align(hist[i].ts) = s
        /\ \A c \in Held(a) : c.id # hist[i].into

\* C5: GetSafe(from, to) with from < to panics and returns no iterators when
\* the chunk of the first requested start has been overwritten in the ring,
\* or when the last requested start exceeds lastStart.
C5_SafeFaults ==
    (/\ last.op = "GetSafe"
     /\ last.p < last.q
     /\ Evicted(Align(last.p)) \/ Align(last.q - 1) > a.lastStart)
        => (last.out = "panic" /\ last.iters = <<>>)

\* the chunks of the slots lo..hi that are not nil, as iterators, in slot order
Filled(lo, hi) ==
    LET run == SelectSeq([k \in 1 .. (hi - lo + 1) |-> a.chunks[lo + k - 1]],
                         LAMBDA c : c.id # 0)
    IN  [k \in 1 .. Len(run) |-> [id |-> run[k].id, t0 |-> run[k].t0, pts |-> run[k].pts]]

\* C6: a read whose first slot is greater than its last slot returns the
\* filled slots firstSlot..numChunks-1, then 0..lastSlot; otherwise the
\* filled slots firstSlot..lastSlot; either way the aligned starts of the
\* chunks returned are strictly increasing.
C6_WrapOrder ==
    ReadOk =>
        LET firstSlot == Index(a, last.fs)
            lastSlot == Index(a, last.ls)
        IN  /\ last.iters = IF firstSlot > lastSlot
                            THEN Filled(firstSlot, numChunks - 1) \o Filled(0, lastSlot)
                            ELSE Filled(firstSlot, lastSlot)
            /\ \A k \in 1 .. Len(last.iters) - 1 :
                  last.iters[k].t0 < last.iters[k + 1].t0

\* C8: GetUnsafe(from, to) with from >= to returns an error and no
\* iterators, can return while the mutex is held (it never locks), and leaves
\* the AggMetric, the mutex, the signals and the accepted samples as they
\* were, so that the calls that follow see what they would have seen.
C8_InvalidRange ==
    /\ [](\A r \in Ranges : r[1] >= r[2] => ENABLED GetUnsafe(r[1], r[2]))
    /\ [][\A r \in Ranges :
             (r[1] >= r[2] /\ GetUnsafe(r[1], r[2]))
                 => /\ last'.out = "error"
                    /\ last'.iters = <<>>
                    /\ UNCHANGED <<a, mu, nextId, sigs, hist>>]_vars

\* GetUnsafe(80, 10) has returned its error on a store that holds samples
\* and whose mutex is held
C8_Witness ==
    /\ last.op = "GetUnsafe" /\ last.p = 80 /\ last.q = 10
    /\ last.out = "error"
    /\ hist # <<>>
    /\ mu # Free

\* the aligned starts of the chunks behind a sequence of iterators
Starts(iters) == [k \in 1 .. Len(iters) |-> iters[k].t0]

\* C11: on a fresh store Add(100, 1) creates the chunk of start 0 in slot 0;
\* Add(130, 2) seals it and opens the chunk of start 120 in slot 1;
\* GetSafe(0, 250) then returns the iterators of the chunks of start 0 and
\* 120, in that order, yielding (100, 1) then (130, 2).
C11_Scenario ==
    /\ Points(hist) = <<<<100, 1>>>> =>
          /\ hist[1].slot = 0
          /\ a.chunks[0].t0 = 0 /\ a.chunks[0].pts = <<<<100, 1>>>>
    /\ Points(hist) = <<<<100, 1>>, <<130, 2>>>> =>
          /\ hist[2].sealed = hist[1].into /\ a.chunks[0].finished
          /\ hist[2].opened # 0 /\ hist[2].slot = 1
          /\ a.chunks[1].t0 = 120 /\ a.chunks[1].pts = <<<<130, 2>>>>
          /\ (last.op = "GetSafe" /\ last.p = 0 /\ last.q = 250) =>
                /\ last.out = "ok"
                /\ Starts(last.iters) = <<0, 120>>
                /\ Yield(last.iters) = <<<<100, 1>>, <<130, 2>>>>

\* C12: the first accepted Add sets firstStart to the aligned start of its
\* sample, whatever the timestamp; once a sample has been accepted no step
\* changes firstStart and no Add takes the first-sample path.
C12_FirstStartOnce ==
    [][/\ (hist = <<>> /\ hist' # <<>>) =>
             (a'.firstStart = Align(hist'[1].ts) /\ hist'[1].path = "first")
       /\ hist # <<>> =>
             /\ a'.firstStart = a.firstStart
             /\ hist' # hist => hist'[Len(hist')].path # "first"]_vars

\* C13: an accepted Add(ts, v) leaves lastTs = ts, and the timestamps of the
\* accepted samples are strictly increasing.
C13_TotalOrder ==
    [][hist' # hist =>
          (a'.lastTs = hist'[Len(hist')].ts /\ InOrder(hist'))]_vars

\* C14: once a sample has been accepted, lastStart is the aligned start of
\* the sample accepted last, it never decreases, firstStart <= lastStart and
\* both are multiples of chunkSpan.
C14_LastStart ==
    [][hist' # <<>> =>
          /\ a'.lastStart = Align(hist'[Len(hist')].ts)
          /\ a'.lastStart >= a.lastStart
          /\ a'.firstStart <= a'.lastStart
          /\ a'.firstStart % chunkSpan = 0
          /\ a'.lastStart % chunkSpan = 0]_vars

\* the slots that hold a chunk not yet finished
OpenSlots == {i \in Slots : a.chunks[i] # Nil /\ ~a.chunks[i].finished}

\* C15: at most one chunk of the ring is open, and it is the chunk of slot
\* ((lastStart - firstStart) / chunkSpan) mod numChunks.
C15_OneOpen ==
    /\ Cardinality(OpenSlots) <= 1
    /\ \A i \in OpenSlots :
          i = ((a.lastStart - a.firstStart) \div chunkSpan) % numChunks

\* C16: every iterator a read returns belongs to a chunk whose aligned start
\* lies between the first and the last requested start handed to get.
C16_NoStale ==
    ReadOk =>
        \A k \in 1 .. Len(last.iters) :
            /\ Le32(last.fs, last.iters[k].t0)
            /\ Le32(last.iters[k].t0, last.ls)

\* the aligned start of chunk object id, from the sample that created it
StartOf(id) ==
    LET k == CHOOSE i \in 1 .. Len(hist) : hist[i].opened = id
    IN  Align(hist[k].ts)

\* the chunk object created last before the j-th accepted sample
RECURSIVE OpenBefore(_)
OpenBefore(j) ==
    IF j <= 1 THEN 0
    ELSE IF hist[j - 1].opened # 0 THEN hist[j - 1].opened
         ELSE OpenBefore(j - 1)

\* C17: no chunk is finished twice; a chunk is finished exactly when an
\* accepted sample opens a chunk with a later aligned start (every chunk
\* opened after the first finishes the chunk open until then); and no
\* sample is pushed into a chunk that has been finished.
C17_Lifecycle ==
    /\ \A i, j \in 1 .. Len(hist) :
          (i < j /\ hist[i].sealed # 0) =>
              /\ hist[j].sealed # hist[i].sealed
              /\ hist[j].into # hist[i].sealed
    /\ \A j \in 1 .. Len(hist) :
          /\ hist[j].sealed # 0 =>
                (hist[j].opened # 0 /\ StartOf(hist[j].sealed) < Align(hist[j].ts))
          /\ (j > 1 /\ hist[j].opened # 0) => hist[j].sealed = OpenBefore(j)

\* C19: with lastStart below numChunks*chunkSpan, a read of a range whose
\* first and last aligned start lie in the written history is not cut by
\* the retention bound: GetUnsafe hands the aligned start of from to get
\* and returns the chunks written for the range, GetSafe does not panic.
C19_NoWrap ==
    (/\ last.op \in {"GetUnsafe", "GetSafe"}
     /\ last.p < last.q
     /\ hist # <<>>
     /\ a.lastStart < numChunks * chunkSpan
     /\ Align(MinTs(hist)) <= Align(last.p)
     /\ Align(last.q - 1) <= Align(MaxTs(hist)))
        => /\ last.out = "ok"
           /\ last.fs = Align(last.p)
           /\ {last.iters[k].id : k \in 1 .. Len(last.iters)}
                 = {c.id : c \in {d \in Held(a) :
                             d.t0 >= Align(last.p) /\ d.t0 <= Align(last.q - 1)}}

----------------------------------------------------------------------------
(* SpecA: one caller adds samples whose timestamps range over the uint32   *)
(* values: small ones, one below 2^31 and some just below 2^32 (a negative *)
(* number -k stands for 2^32 - k).                                         *)

TsWide == {0, 100, 130, 700, 2147483000, -1000, -16, -1}

NextA == \E ts \in TsWide, val \in ValsA : Add(ts, val)

SpecA == Init /\ [][NextA]_vars

\* C18: no Add faults, whatever the uint32 timestamp: in every reachable
\* store, for every timestamp Add does not reject, the slot index of the
\* sample and the slot index of lastStart are within 0 .. numChunks-1 and
\* the chunk Push or Finish is called on is not nil.
C18_AddNeverFaults ==
    /\ last.op = "Add" => last.out # "panic"
    /\ \A ts \in TsWide :
          ~AddRejects(a, ts) =>
              /\ Index(a, Align(ts)) \in Slots
              /\ Index(a, a.lastStart) \in Slots
              /\ ~AddFaults(a, ts)

\* three samples accepted, one of them above 2^31, one on the same-chunk
\* path and one on the new-chunk path with a start below firstStart, where
\* start - firstStart wraps
C18_Witness ==
    /\ Len(hist) = MaxAdds
    /\ last.op = "Add" /\ last.out = "ok"
    /\ \E j \in 1 .. Len(hist) : hist[j].ts < 0
    /\ \E j \in 1 .. Len(hist) : hist[j].path = "same"
    /\ \E j \in 1 .. Len(hist) :
          hist[j].path = "new" /\ Lt32(Align(hist[j].ts), a.firstStart)

----------------------------------------------------------------------------
(* SpecC: the goroutines of G call Add, GetUnsafe and GetSafe concurrently. *)
(* pc[g] names the statement goroutine g executes next; loc[g] holds the    *)
(* arguments (p, q), the locals (fs, ls: firstStart, lastStart) and the     *)
(* result so far of its call, and nsig, the Signal rounds the call made.    *)

\* timestamps and ranges offered to the concurrent callers
TsC == {0, 100, 850, 860}
ValsC == {1}
RangesC == {<<50, 50>>, <<0, 250>>, <<700, 860>>}

Goto(g, label) == pc' = [pc EXCEPT ![g] = label]
Start(g, op, p, q) == loc' = [loc EXCEPT ![g] = [NoLoc EXCEPT !.op = op, !.p = p, !.q = q]]
Return(g, out) ==
    last' = Ret(loc[g].op, loc[g].p, loc[g].q, out, loc[g].fs, loc[g].ls, loc[g].iters)

\* a Lock that does not wait
MutLock(g) == mu' = g

\* a.Lock(): the caller waits until the mutex is free
Lock(g) == mu = Free /\ mu' = g
\* a.Unlock()
Unlock(g) == mu' = Free

\* line 141: a goroutine calls Add
CallAdd(g, ts, val) ==
    /\ pc[g] = "idle"
    /\ Len(hist) < MaxAddsC
    /\ Start(g, "Add", ts, val)
    /\ Goto(g, "add_lock")
    /\ UNCHANGED <<a, mu, nextId, sigs, hist, last, gen>>

\* line 142
AddLock(g) ==
    /\ pc[g] = "add_lock"
    /\ Lock(g)
    /\ Goto(g, "add_check")
    /\ UNCHANGED <<a, nextId, sigs, hist, last, loc, gen>>

\* lines 145-152, 162: rejection, else the choice of the path
AddCheck(g) ==
    /\ pc[g] = "add_check"
    /\ IF AddRejects(a, loc[g].p)
       THEN /\ Goto(g, "add_unlock")
            /\ loc' = [loc EXCEPT ![g].out = "rejected"]
       ELSE /\ Goto(g, CASE AddPath(a, loc[g].p) = "first" -> "add_first_set"
                         [] AddPath(a, loc[g].p) = "same" -> "add_same"
                         [] OTHER -> "add_seal")
            /\ loc' = [loc EXCEPT ![g].out = "ok"]
    /\ UNCHANGED <<a, mu, nextId, sigs, hist, last, gen>>

\* lines 153-154
AddFirstSetStep(g) ==
    /\ pc[g] = "add_first_set"
    /\ a' = AddFirstSet(a, Align(loc[g].p))
    /\ Goto(g, "add_first_chunk")
    /\ UNCHANGED <<mu, nextId, sigs, hist, last, loc, gen>>

\* lines 155-157
AddFirstChunkStep(g) ==
    /\ pc[g] = "add_first_chunk"
    /\ a' = AddFirstChunk(a, nextId, Align(loc[g].p), loc[g].p, loc[g].q)
    /\ nextId' = nextId + 1
    /\ hist' = Append(hist, AddRecord(a, "first", nextId, loc[g].p, loc[g].q))
    /\ Goto(g, "add_signal")
    /\ UNCHANGED <<mu, sigs, last, loc, gen>>

\* lines 164-165; Push on a nil chunk panics and the deferred Unlock runs
AddSameStep(g) ==
    /\ pc[g] = "add_same"
    /\ IF AddFaults(a, loc[g].p)
       THEN /\ Goto(g, "add_unlock")
            /\ loc' = [loc EXCEPT ![g].out = "panic"]
            /\ UNCHANGED <<a, hist>>
       ELSE /\ a' = AddSame(a, Align(loc[g].p), loc[g].p, loc[g].q)
            /\ hist' = Append(hist, AddRecord(a, "same", nextId, loc[g].p, loc[g].q))
            /\ Goto(g, "add_signal")
            /\ UNCHANGED loc
    /\ UNCHANGED <<mu, nextId, sigs, last, gen>>

\* lines 171-172; Finish on a nil chunk panics and the deferred Unlock runs
AddSealStep(g) ==
    /\ pc[g] = "add_seal"
    /\ IF AddFaults(a, loc[g].p)
       THEN /\ Goto(g, "add_unlock")
            /\ loc' = [loc EXCEPT ![g].out = "panic"]
            /\ UNCHANGED a
       ELSE /\ a' = AddSeal(a)
            /\ Goto(g, "add_open")
            /\ UNCHANGED loc
    /\ UNCHANGED <<mu, nextId, sigs, hist, last, gen>>

\* lines 175-178
AddOpenStep(g) ==
    /\ pc[g] = "add_open"
    /\ a' = AddOpen(a, nextId, Align(loc[g].p), loc[g].p, loc[g].q)
    /\ nextId' = nextId + 1
    /\ hist' = Append(hist, AddRecord(a, "new", nextId, loc[g].p, loc[g].q))
    /\ Goto(g, "add_signal")
    /\ UNCHANGED <<mu, sigs, last, loc, gen>>

\* lines 158 and 182
AddSignal(g) ==
    /\ pc[g] = "add_signal"
    /\ sigs' = signalAggregators(sigs, loc[g].p)
    /\ loc' = [loc EXCEPT ![g].nsig = @ + 1]
    /\ Goto(g, "add_unlock")
    /\ UNCHANGED <<a, mu, nextId, hist, last, gen>>

\* line 143, the deferred Unlock, and the return
AddUnlock(g) ==
    /\ pc[g] = "add_unlock"
    /\ Unlock(g)
    /\ Return(g, loc[g].out)
    /\ Goto(g, "idle")
    /\ loc' = [loc EXCEPT ![g] = NoLoc]
    /\ UNCHANGED <<a, nextId, sigs, hist, gen>>

\* lines 53-56: a goroutine calls GetUnsafe; a bad range returns at once
CallGetUnsafe(g, from, to) ==
    /\ pc[g] = "idle"
    /\ IF BadRange(from, to)
       THEN /\ last' = Ret("GetUnsafe", from, to, "error", 0, 0, NoIters)
            /\ UNCHANGED <<pc, loc>>
       ELSE /\ Start(g, "GetUnsafe", from, to)
            /\ Goto(g, "gu_lock")
            /\ UNCHANGED last
    /\ UNCHANGED <<a, mu, nextId, sigs, hist, gen>>

\* line 57
GuLock(g) ==
    /\ pc[g] = "gu_lock"
    /\ Lock(g)
    /\ Goto(g, "gu_clamp")
    /\ UNCHANGED <<a, nextId, sigs, hist, last, loc, gen>>

\* lines 58-65
GuClamp(g) ==
    /\ pc[g] = "gu_clamp"
    /\ loc' = [loc EXCEPT ![g].fs = UnsafeFirst(a, loc[g].p),
                          ![g].ls = UnsafeLast(a, loc[g].q)]
    /\ Goto(g, "gu_get")
    /\ UNCHANGED <<a, mu, nextId, sigs, hist, last, gen>>

\* line 68, the call of get
GuGet(g) ==
    /\ pc[g] = "gu_get"
    /\ loc' = [loc EXCEPT ![g].iters = get(a, loc[g].fs, loc[g].ls)]
    /\ Goto(g, "gu_unlock")
    /\ UNCHANGED <<a, mu, nextId, sigs, hist, last, gen>>

\* line 67, the deferred Unlock, and the return
GuUnlock(g) ==
    /\ pc[g] = "gu_unlock"
    /\ Unlock(g)
    /\ Return(g, "ok")
    /\ Goto(g, "idle")
    /\ loc' = [loc EXCEPT ![g] = NoLoc]
    /\ UNCHANGED <<a, nextId, sigs, hist, gen>>

\* lines 73-76: a goroutine calls GetSafe; a bad range panics at once.  A
\* panic ends the call; the goroutine's caller goes on.
CallGetSafe(g, from, to) ==
    /\ pc[g] = "idle"
    /\ IF BadRange(from, to)
       THEN /\ last' = Ret("GetSafe", from, to, "panic", 0, 0, NoIters)
            /\ UNCHANGED <<pc, loc>>
       ELSE /\ Start(g, "GetSafe", from, to)
            /\ Goto(g, "gs_lock")
            /\ UNCHANGED last
    /\ UNCHANGED <<a, mu, nextId, sigs, hist, gen>>

\* line 77
GsLock(g) ==
    /\ pc[g] = "gs_lock"
    /\ Lock(g)
    /\ Goto(g, "gs_check")
    /\ UNCHANGED <<a, nextId, sigs, hist, last, loc, gen>>

\* lines 78-85: the panics come before the Unlock is deferred at line 86,
\* so the call ends with the mutex as it is
GsCheck(g) ==
    /\ pc[g] = "gs_check"
    /\ IF TooOld(a, loc[g].p) \/ TooNew(a, loc[g].q)
       THEN /\ Return(g, "panic")
            /\ Goto(g, "idle")
            /\ loc' = [loc EXCEPT ![g] = NoLoc]
       ELSE /\ loc' = [loc EXCEPT ![g].fs = Align(loc[g].p),
                                  ![g].ls = Align(Sub32(loc[g].q, 1))]
            /\ Goto(g, "gs_get")
            /\ UNCHANGED last
    /\ UNCHANGED <<a, mu, nextId, sigs, hist, gen>>

\* line 87, the call of get
GsGet(g) ==
    /\ pc[g] = "gs_get"
    /\ loc' = [loc EXCEPT ![g].iters = get(a, loc[g].fs, loc[g].ls)]
    /\ Goto(g, "gs_unlock")
    /\ UNCHANGED <<a, mu, nextId, sigs, hist, last, gen>>

\* line 86, the deferred Unlock, and the return
GsUnlock(g) ==
    /\ pc[g] = "gs_unlock"
    /\ Unlock(g)
    /\ Return(g, "ok")
    /\ Goto(g, "idle")
    /\ loc' = [loc EXCEPT ![g] = NoLoc]
    /\ UNCHANGED <<a, nextId, sigs, hist, gen>>

NextC ==
    \/ \E g \in G, ts \in TsC, val \in ValsC : CallAdd(g, ts, val)
    \/ \E g \in G : AddLock(g)
    \/ \E g \in G : AddCheck(g)
    \/ \E g \in G : AddFirstSetStep(g)
    \/ \E g \in G : AddFirstChunkStep(g)
    \/ \E g \in G : AddSameStep(g)
    \/ \E g \in G : AddSealStep(g)
    \/ \E g \in G : AddOpenStep(g)
    \/ \E g \in G : AddSignal(g)
    \/ \E g \in G : AddUnlock(g)
    \/ \E g \in G, r \in RangesC : CallGetUnsafe(g, r[1], r[2])
    \/ \E g \in G : GuLock(g)
    \/ \E g \in G : GuClamp(g)
    \/ \E g \in G : GuGet(g)
    \/ \E g \in G : GuUnlock(g)
    \/ \E g \in G, r \in RangesC : CallGetSafe(g, r[1], r[2])
    \/ \E g \in G : GsLock(g)
    \/ \E g \in G : GsCheck(g)
    \/ \E g \in G : GsGet(g)
    \/ \E g \in G : GsUnlock(g)

SpecC == Init /\ [][NextC]_vars

----------------------------------------------------------------------------
(* Properties of the concurrent calls, checked under SpecC.                *)

\* the statements between Lock and Unlock
Critical ==
    {"add_check", "add_first_set", "add_first_chunk", "add_same", "add_seal",
     "add_open", "add_signal", "add_unlock", "gu_clamp", "gu_get", "gu_unlock",
     "gs_check", "gs_get", "gs_unlock"}

\* the statements of the reads that read the fields of the AggMetric
Reading == {"gu_clamp", "gu_get", "gs_check", "gs_get"}

\* the AggMetric that the accepted samples of h, applied whole and in order,
\* leave behind
RECURSIVE Replay(_)
Replay(h) ==
    IF h = <<>> THEN NewAggMetric
    ELSE LET r == h[Len(h)]
         IN  AddStore(Replay(SubSeq(h, 1, Len(h) - 1)), r.opened, r.ts, r.val)

\* C7: the aggregators are signalled only by an accepted Add, with the mutex
\* held before and after, once the sample is the last point of its chunk:
\* one Signal per aggregator, in list order, carrying the sample's timestamp.
\* A returning Add has made exactly one such round if it was accepted, the
\* first sample included, and none if it was rejected.
C7_SignalFanOut ==
    [][/\ sigs' # sigs =>
            \E g \in G :
                /\ mu = g /\ mu' = g
                /\ loc[g].op = "Add" /\ loc[g].out = "ok"
                /\ loc[g].nsig = 0 /\ loc'[g].nsig = 1
                /\ Len(sigs') = Len(sigs) + Len(aggregators)
                /\ SubSeq(sigs', 1, Len(sigs)) = sigs
                /\ \A i \in 1 .. Len(aggregators) :
                      sigs'[Len(sigs) + i] = <<aggregators[i], loc[g].p>>
                /\ hist # <<>>
                /\ hist[Len(hist)].ts = loc[g].p
                /\ LET c == a.chunks[hist[Len(hist)].slot]
                   IN  /\ c.id = hist[Len(hist)].into
                       /\ c.pts[Len(c.pts)] = <<loc[g].p, loc[g].q>>
       /\ \A g \in G :
             (pc[g] = "add_unlock" /\ pc'[g] = "idle") =>
                /\ loc[g].out = "ok" => loc[g].nsig = 1
                /\ loc[g].out # "ok" => loc[g].nsig = 0]_vars

\* the first sample ever has been pushed and signalled, its Add is about to
\* unlock
C7_Witness ==
    \E g \in G :
        /\ pc[g] = "add_unlock" /\ loc[g].nsig = 1
        /\ Len(hist) = 1 /\ hist[1].path = "first"
        /\ sigs = <<<<"agg1", loc[g].p>>, <<"agg2", loc[g].p>>>>

\* C9: a goroutine that is not inside a call does not hold the mutex:
\* every way out of Add, GetUnsafe and GetSafe, a panic of GetSafe included,
\* has released it.
C9_LockReleased == \A g \in G : pc[g] = "idle" => mu # g

\* C10: at most one goroutine is between Lock and Unlock, it is the holder
\* of the mutex, and what a read reads is the AggMetric as whole Adds left
\* it: never firstStart set with slot 0 still empty, never the state between
\* two statements of an Add.
C10_Serialized ==
    /\ \A g, h \in G : (pc[g] \in Critical /\ pc[h] \in Critical) => g = h
    /\ \A g \in G : pc[g] \in Critical => mu = g
    /\ \A g \in G :
          pc[g] \in Reading =>
              /\ a = Replay(hist)
              /\ a.firstStart # 0 => a.chunks[0] # Nil

\* a read is at its call of get on a store that holds samples while the
\* other goroutine waits in Add for the mutex
C10_Witness ==
    \E g, h \in G :
        /\ pc[g] = "gu_get" /\ pc[h] = "add_lock"
        /\ hist # <<>>

----------------------------------------------------------------------------
(* SpecG: generateSchemas(numPartitions) under a configuration of          *)
(* partitionMethod and partitionCount.  gen.i is the loop variable of       *)
(* generateSchemas (the desired partition), gen.j the loop variable of     *)
(* generateSchema, gen.tried the names the running search has tried.       *)

MaxParts == 3
MaxTries == 60
MaxSuffix == 800
Counts == {1, 2, 32}

\* the call, lines 22-23
CallGenerateSchemas(n, method, count) ==
    /\ gen.pc = "idle"
    /\ gen' = [NoGen EXCEPT !.pc = "loop", !.numPartitions = n,
                            !.partitionMethod = method, !.partitionCount = count]
    /\ UNCHANGED <<a, mu, nextId, sigs, hist, last, pc, loc>>

\* lines 24-25 and 32-39: the loop of generateSchemas calls generateSchema(i)
SchemasLoop ==
    /\ gen.pc = "loop"
    /\ gen.i < gen.numPartitions
    /\ gen' = [gen EXCEPT !.pc = "search", !.j = 1, !.tried = <<>>]
    /\ UNCHANGED <<a, mu, nextId, sigs, hist, last, pc, loc>>

\* lines 24 and 28: the loop ends and the metrics are returned
SchemasReturn ==
    /\ gen.pc = "loop"
    /\ ~(gen.i < gen.numPartitions)
    /\ gen' = [gen EXCEPT !.pc = "done"]
    /\ UNCHANGED <<a, mu, nextId, sigs, hist, last, pc, loc>>

\* metric.Name of the iteration the search is at
Name == Sprintf(gen.i, generatePartitionSuffix(gen.j))
\* what PartitionID returns for it
Id == PartitionID(Name, gen.partitionMethod, gen.partitionCount)

\* lines 40-44: PartitionID fails and log.Fatal ends the process
SchemaFatal ==
    /\ gen.pc = "search"
    /\ Id.err
    /\ gen' = [gen EXCEPT !.pc = "fatal", !.tried = Append(@, Name)]
    /\ UNCHANGED <<a, mu, nextId, sigs, hist, last, pc, loc>>

\* lines 39-45: the name hashes to another partition, the loop goes on
SchemaMiss ==
    /\ gen.pc = "search"
    /\ gen.j < MaxTries
    /\ ~Id.err /\ Id.id # gen.i
    /\ gen' = [gen EXCEPT !.j = @ + 1, !.tried = Append(@, Name)]
    /\ UNCHANGED <<a, mu, nextId, sigs, hist, last, pc, loc>>

\* lines 39-48 and 25: the name hashes to the desired partition, the metric
\* is returned and appended
SchemaHit ==
    /\ gen.pc = "search"
    /\ ~Id.err /\ Id.id = gen.i
    /\ gen' = [gen EXCEPT !.pc = "loop", !.i = @ + 1,
                          !.metrics = Append(@, [Name |-> Name]),
                          !.tried = Append(@, Name)]
    /\ UNCHANGED <<a, mu, nextId, sigs, hist, last, pc, loc>>

NextG ==
    \/ \E n \in 0 .. MaxParts, method \in Methods, count \in Counts :
          CallGenerateSchemas(n, method, count)
    \/ SchemasLoop
    \/ SchemasReturn
    \/ SchemaFatal
    \/ SchemaMiss
    \/ SchemaHit

SpecG == Init /\ [][NextG]_vars

----------------------------------------------------------------------------
(* Properties of the generator, checked under SpecG *)

\* the suffixes of 0 .. MaxSuffix
Suffixes == {generatePartitionSuffix(i) : i \in 0 .. MaxSuffix}

\* C20: generateSchemas(n) returns exactly n metrics and the i-th metric's
\* PartitionID is i; the names one search tries are pairwise different;
\* generatePartitionSuffix recurses on a smaller non-negative argument and
\* maps the distinct i of 0 .. MaxSuffix to distinct suffixes.
C20_SchemasGenerated ==
    /\ gen.pc = "done" =>
          /\ Len(gen.metrics) = gen.numPartitions
          /\ \A k \in 1 .. Len(gen.metrics) :
                LET r == PartitionID(gen.metrics[k].Name, gen.partitionMethod,
                                     gen.partitionCount)
                IN  ~r.err /\ r.id = k - 1
    /\ \A k, l \in 1 .. Len(gen.tried) : k # l => gen.tried[k] # gen.tried[l]
    /\ \A i \in 26 .. MaxSuffix : (i \div 26) - 1 \in 0 .. (i - 1)
    /\ Cardinality(Suffixes) = MaxSuffix + 1

\* generateSchemas has returned MaxParts metrics, one of them found with a
\* suffix of two letters
C20_Witness ==
    /\ gen.pc = "done"
    /\ Len(gen.metrics) = MaxParts
    /\ \E k \in 1 .. Len(gen.metrics) : Len(gen.metrics[k].Name.s) = 2

====
